---- MODULE Spec2Model ----
(***************************************************************************)
(* Model of the streaming equi-depth histogram builder of                  *)
(* src/coprocessor/statistics/histogram.rs (Bucket, Histogram).            *)
(*                                                                         *)
(* A Histogram value is the record [id, ndv, buckets, per_bucket_limit,    *)
(* buckets_num]; a Bucket is the record [count, upper_bound, lower_bound,  *)
(* repeats].  Byte strings (Vec<u8>) are sequences of naturals.  The       *)
(* functions of the source are operators on these records, and the single  *)
(* mutating operation, Histogram::iterate, is the action Iterate.          *)
(***************************************************************************)
EXTENDS Integers, Sequences, FiniteSets

\* ---------------------------------------------------------------- bounds
MaxBucketsNum == 3      \* buckets_num is drawn from 0..MaxBucketsNum
MaxIngest == 7          \* calls of iterate in a run with arbitrary input
MaxDatum == 5           \* sorted input encodes the integers 0..MaxDatum
MaxSortedIngest == 12   \* calls of iterate in a run with sorted input

VARIABLES
    id,                 \* Histogram.id
    ndv,                \* Histogram.ndv
    buckets,            \* Histogram.buckets
    per_bucket_limit,   \* Histogram.per_bucket_limit
    buckets_num,        \* Histogram.buckets_num
    history,            \* every value passed to iterate so far, in order
    merges,             \* number of executions of merge_buckets so far
    call,               \* the path the latest iterate call took
    merge,              \* the histogram before/after the latest merge_buckets
    failed              \* an iterate call panicked (unwrap on None)

vars == <<id, ndv, buckets, per_bucket_limit, buckets_num,
          history, merges, call, merge, failed>>

\* ------------------------------------------------------------ byte strings
Last(s) == s[Len(s)]

\* the arbitrary input values: the empty string, a string and a proper
\* extension of it, and a string that differs in its first byte
ByteStrings == {<<>>, <<0>>, <<0, 0>>, <<1>>}

\* Ord of Vec<u8>: lexicographic, a proper prefix is smaller
RECURSIVE LexLess(_, _)
LexLess(a, b) ==
    IF b = <<>> THEN FALSE
    ELSE IF a = <<>> THEN TRUE
    ELSE IF a[1] # b[1] THEN a[1] < b[1]
    ELSE LexLess(Tail(a), Tail(b))

LexLeq(a, b) == a = b \/ LexLess(a, b)

\* datum::encode_value(&[Datum::I64(i)]) for a small non-negative i:
\* the var-int flag byte followed by the zig-zag var-int of i
VAR_INT_FLAG == 8
encode_value(i) == <<VAR_INT_FLAG, 2 * i>>

\* the values of a sorted run
Datums == {encode_value(i) : i \in 0..MaxDatum}

\* ------------------------------------------------------------------ Bucket
Bucket_new(count, upper_bound, lower_bound, repeats) ==
    [count |-> count, upper_bound |-> upper_bound,
     lower_bound |-> lower_bound, repeats |-> repeats]

\* insert_repeated_item that forgets to count the repeat
insert_repeated_item_no_repeats(b) ==
    [b EXCEPT !.count = @ + 1]

insert_repeated_item(b) ==
    [b EXCEPT !.count = @ + 1, !.repeats = @ + 1]

\* insert_item that keeps the repeats of the previous upper_bound
insert_item_keep_repeats(b, data) ==
    [b EXCEPT !.upper_bound = data, !.count = @ + 1]

\* insert_item that leaves upper_bound as it was
insert_item_keep_upper(b, data) ==
    [b EXCEPT !.count = @ + 1, !.repeats = 1]

\* insert_item that also moves lower_bound to the new value
insert_item_reset_lower(b, data) ==
    [b EXCEPT !.upper_bound = data, !.lower_bound = data,
              !.count = @ + 1, !.repeats = 1]

insert_item(b, data) ==
    [b EXCEPT !.upper_bound = data, !.count = @ + 1, !.repeats = 1]

\* --------------------------------------------------------------- Histogram
Histogram_new(i, n) ==
    [id |-> i, ndv |-> 0, buckets |-> <<>>,
     per_bucket_limit |-> 1, buckets_num |-> n]

\* is_last_bucket_full with > in place of >=
is_last_bucket_full_strict(h) ==
    IF h.buckets = <<>> THEN TRUE
    ELSE LET len == Len(h.buckets)
             count == IF len = 1 THEN h.buckets[1].count
                      ELSE h.buckets[len].count - h.buckets[len - 1].count
         IN  count > h.per_bucket_limit

\* is_last_bucket_full without the special case of an empty sequence
is_last_bucket_full_no_empty(h) ==
    LET len == Len(h.buckets)
        count == IF len = 0 THEN 0
                 ELSE IF len = 1 THEN h.buckets[1].count
                 ELSE h.buckets[len].count - h.buckets[len - 1].count
    IN  count >= h.per_bucket_limit

\* is_last_bucket_full reading the cumulative count as the own item count
is_last_bucket_full_cumulative(h) ==
    IF h.buckets = <<>> THEN TRUE
    ELSE h.buckets[Len(h.buckets)].count >= h.per_bucket_limit

\* is_last_bucket_full that lets a bucket take one value too many
is_last_bucket_full_late(h) ==
    IF h.buckets = <<>> THEN TRUE
    ELSE LET len == Len(h.buckets)
             count == IF len = 1 THEN h.buckets[1].count
                      ELSE h.buckets[len].count - h.buckets[len - 1].count
         IN  count >= h.per_bucket_limit + 1

is_last_bucket_full(h) ==
    IF h.buckets = <<>> THEN TRUE
    ELSE LET len == Len(h.buckets)
             count == IF len = 1 THEN h.buckets[1].count
                      ELSE h.buckets[len].count - h.buckets[len - 1].count
         IN  count >= h.per_bucket_limit

\* the drain loop taking the pair's lower_bound from the second bucket
RECURSIVE merge_pairs_second_lower(_)
merge_pairs_second_lower(bs) ==
    IF bs = <<>> THEN <<>>
    ELSE IF Len(bs) = 1 THEN <<bs[1]>>
    ELSE <<Bucket_new(bs[2].count, bs[2].upper_bound,
                      bs[2].lower_bound, bs[2].repeats)>>
         \o merge_pairs_second_lower(SubSeq(bs, 3, Len(bs)))

\* the drain loop losing an unpaired last bucket
RECURSIVE merge_pairs_drop_odd(_)
merge_pairs_drop_odd(bs) ==
    IF bs = <<>> THEN <<>>
    ELSE IF Len(bs) = 1 THEN <<>>
    ELSE <<Bucket_new(bs[2].count, bs[2].upper_bound,
                      bs[1].lower_bound, bs[2].repeats)>>
         \o merge_pairs_drop_odd(SubSeq(bs, 3, Len(bs)))

\* the drain loop taking the pair's repeats from the first bucket
RECURSIVE merge_pairs_first_repeats(_)
merge_pairs_first_repeats(bs) ==
    IF bs = <<>> THEN <<>>
    ELSE IF Len(bs) = 1 THEN <<bs[1]>>
    ELSE <<Bucket_new(bs[2].count, bs[2].upper_bound,
                      bs[1].lower_bound, bs[1].repeats)>>
         \o merge_pairs_first_repeats(SubSeq(bs, 3, Len(bs)))

\* a drain loop that merges nothing
merge_pairs_identity(bs) == bs

\* the drain loop of merge_buckets: every two neighbours become one bucket
RECURSIVE merge_pairs(_)
merge_pairs(bs) ==
    IF bs = <<>> THEN <<>>
    ELSE IF Len(bs) = 1 THEN <<bs[1]>>
    ELSE <<Bucket_new(bs[2].count, bs[2].upper_bound,
                      bs[1].lower_bound, bs[2].repeats)>>
         \o merge_pairs(SubSeq(bs, 3, Len(bs)))

\* merge_buckets that leaves per_bucket_limit as it was
merge_buckets_no_double(h) ==
    [h EXCEPT !.buckets = merge_pairs(@)]

merge_buckets(h) ==
    [h EXCEPT !.buckets = merge_pairs(@), !.per_bucket_limit = @ * 2]

\* the repeat test comparing with lower_bound
same_as_last_lower(h, data) ==
    h.buckets # <<>> /\ Last(h.buckets).lower_bound = data

\* the test of the repeat branch of iterate
same_as_last(h, data) ==
    h.buckets # <<>> /\ Last(h.buckets).upper_bound = data

\* the compaction check with > in place of >=
need_merge_strict(h) ==
    Len(h.buckets) > h.buckets_num /\ is_last_bucket_full(h)

\* the compaction check without the fullness test
need_merge_no_full(h) ==
    Len(h.buckets) >= h.buckets_num

\* the compaction check of iterate
need_merge(h) ==
    Len(h.buckets) >= h.buckets_num /\ is_last_bucket_full(h)

\* a new bucket's count that forgets the preceding buckets
new_bucket_count_from_one(h) == 1

\* the count of a bucket created by iterate
new_bucket_count(h) ==
    IF h.buckets # <<>> THEN 1 + Last(h.buckets).count ELSE 1

\* Histogram::iterate as a function: the histogram it leaves, the branch it
\* took (path), whether it ran merge_buckets (merged), and the histogram as
\* it stood right after the compaction check (mid).
iterate(h, data) ==
    IF same_as_last(h, data)
    THEN [h |-> [h EXCEPT !.buckets[Len(h.buckets)] = insert_repeated_item(@)],
          path |-> "repeat", merged |-> FALSE, mid |-> h]
    ELSE LET h1 == [h EXCEPT !.ndv = @ + 1]
             m  == need_merge(h1)
             h2 == IF m THEN merge_buckets(h1) ELSE h1
         IN  IF ~is_last_bucket_full(h2)
             THEN IF h2.buckets = <<>>
                  THEN [h |-> h2, path |-> "panic", merged |-> m, mid |-> h2]
                  ELSE [h |-> [h2 EXCEPT !.buckets[Len(h2.buckets)] =
                                             insert_item(@, data)],
                        path |-> "insert", merged |-> m, mid |-> h2]
             ELSE [h |-> [h2 EXCEPT !.buckets =
                              Append(@, Bucket_new(new_bucket_count(h2),
                                                   data, data, 1))],
                   path |-> "push", merged |-> m, mid |-> h2]

\* ------------------------------------------------------------ state machine
Ids == {1}
BucketsNums == 0..MaxBucketsNum

Self ==
    [id |-> id, ndv |-> ndv, buckets |-> buckets,
     per_bucket_limit |-> per_bucket_limit, buckets_num |-> buckets_num]

Init ==
    \E i \in Ids, n \in BucketsNums :
        LET h == Histogram_new(i, n) IN
        /\ id = h.id
        /\ ndv = h.ndv
        /\ buckets = h.buckets
        /\ per_bucket_limit = h.per_bucket_limit
        /\ buckets_num = h.buckets_num
        /\ history = <<>>
        /\ merges = 0
        /\ call = [path |-> "none", merged |-> FALSE, data |-> <<>>,
                   pre |-> h, mid |-> h]
        /\ merge = [pre |-> h, post |-> h]
        /\ failed = FALSE

\* one call hist.iterate(data)
Call(data) ==
    LET r == iterate(Self, data) IN
    /\ ~failed
    /\ id' = r.h.id
    /\ ndv' = r.h.ndv
    /\ buckets' = r.h.buckets
    /\ per_bucket_limit' = r.h.per_bucket_limit
    /\ buckets_num' = r.h.buckets_num
    /\ history' = Append(history, data)
    /\ merges' = IF r.merged THEN merges + 1 ELSE merges
    /\ call' = [path |-> r.path, merged |-> r.merged, data |-> data,
                pre |-> Self, mid |-> r.mid]
    /\ merge' = IF r.merged
                THEN [pre |-> [Self EXCEPT !.ndv = @ + 1], post |-> r.mid]
                ELSE merge
    /\ failed' = (r.path = "panic")

\* iterate on an arbitrary byte string
Iterate(data) ==
    /\ Len(history) < MaxIngest
    /\ Call(data)

\* iterate on the next value of a sorted (non-decreasing) stream
IterateSorted(data) ==
    /\ Len(history) < MaxSortedIngest
    /\ history # <<>> => LexLeq(Last(history), data)
    /\ Call(data)

Next == \E data \in ByteStrings : Iterate(data)

NextSorted == \E data \in Datums : IterateSorted(data)

Spec == Init /\ [][Next]_vars

SpecSorted == Init /\ [][NextSorted]_vars

\* ----------------------------------------------------------------- helpers
\* the own item count of bucket i: its count minus the preceding one's
Own(bs, i) == IF i = 1 THEN bs[1].count ELSE bs[i].count - bs[i - 1].count

IsSorted(s) == \A i \in 1..(Len(s) - 1) : LexLeq(s[i], s[i + 1])

RECURSIVE Pow2(_)
Pow2(n) == IF n = 0 THEN 1 ELSE 2 * Pow2(n - 1)

TypeOK ==
    /\ id \in Ids
    /\ buckets_num \in BucketsNums
    /\ ndv \in Nat
    /\ per_bucket_limit \in Nat
    /\ merges \in Nat
    /\ failed \in BOOLEAN

\* the values of the history, as a set
Values(s) == {s[i] : i \in 1..Len(s)}

\* the positions of the history whose value lies in the range of bucket b
InRange(s, b) ==
    {i \in 1..Len(s) : LexLeq(b.lower_bound, s[i]) /\ LexLeq(s[i], b.upper_bound)}

\* the distinct values of the history that lie in the range of bucket b
DistinctIn(s, b) ==
    {v \in Values(s) : LexLeq(b.lower_bound, v) /\ LexLeq(v, b.upper_bound)}

\* the length of the run of equal values that ends the history
RECURSIVE TrailingRun(_)
TrailingRun(s) ==
    IF s = <<>> THEN 0
    ELSE IF Len(s) = 1 THEN 1
    ELSE IF s[Len(s) - 1] # s[Len(s)] THEN 1
    ELSE 1 + TrailingRun(SubSeq(s, 1, Len(s) - 1))

\* ------------------------------------------------------------------ claims

\* C1: after any sequence of iterate calls on a builder with buckets_num >= 1,
\* sorted or not, the cumulative counts strictly increase along the bucket
\* sequence and the last bucket's count is the number of values ingested.
C1_MonotonicCounts ==
    buckets_num >= 1 =>
        /\ \A i \in 1..(Len(buckets) - 1) :
               buckets[i].count < buckets[i + 1].count
        /\ buckets # <<>> => Last(buckets).count = Len(history)
        /\ buckets = <<>> => history = <<>>

C1_Witness ==
    /\ buckets_num >= 1
    /\ Len(buckets) >= 3
    /\ merges >= 1
    /\ ~IsSorted(history)

\* C2: for buckets_num >= 1 and sorted input, the number of buckets is at most
\* buckets_num after the compaction check of every iterate call and when
\* every iterate call returns.
C2_BucketCap ==
    buckets_num >= 1 =>
        /\ Len(buckets) <= buckets_num
        /\ call.path \in {"insert", "push"} =>
               Len(call.mid.buckets) <= buckets_num

\* C3: per_bucket_limit is 2^m, m the number of merge_buckets executions so
\* far; it is 1 on a new builder, never decreases and changes only by
\* doubling inside a merge.
C3_DoublingLaw ==
    /\ [](per_bucket_limit = Pow2(merges))
    /\ [][\/ per_bucket_limit' = per_bucket_limit /\ merges' = merges
          \/ per_bucket_limit' = 2 * per_bucket_limit /\ merges' = merges + 1
         ]_vars

C3_Witness ==
    /\ merges = 3
    /\ per_bucket_limit = 8
    /\ buckets_num >= 1

\* C4: ndv is the number of positions of the ingested sequence whose value
\* differs from the value ingested just before (the first position counts);
\* for a sorted sequence that is the number of distinct values.
C4_NdvAccuracy ==
    /\ ndv = Cardinality({i \in 1..Len(history) :
                             i = 1 \/ history[i] # history[i - 1]})
    /\ IsSorted(history) => ndv = Cardinality(Values(history))

C4_Witness ==
    /\ ~IsSorted(history)
    /\ TrailingRun(history) >= 2
    /\ merges >= 1
    /\ ndv > Cardinality(Values(history))

\* C5: an iterate call whose value equals the last bucket's upper_bound adds 1
\* to the last bucket's count and repeats and changes nothing else, runs no
\* merge and creates no bucket, whatever the fill of the last bucket; so the
\* last bucket's repeats is the length of the run of equal values that ends
\* the ingested sequence.
C5_RepeatAbsorption ==
    /\ [][(/\ buckets # <<>>
           /\ history' = Append(history, Last(buckets).upper_bound))
          => /\ buckets' = [buckets EXCEPT ![Len(buckets)] =
                               [@ EXCEPT !.count = @ + 1, !.repeats = @ + 1]]
             /\ UNCHANGED <<id, ndv, per_bucket_limit, buckets_num, merges>>
             /\ call'.path = "repeat"
             /\ ~call'.merged
         ]_vars
    /\ [](buckets # <<>> => Last(buckets).repeats = TrailingRun(history))

C5_Witness ==
    /\ call.path = "repeat"
    /\ TrailingRun(history) >= 3
    /\ Len(buckets) >= buckets_num
    /\ Own(buckets, Len(buckets)) > per_bucket_limit
    /\ buckets_num >= 1

\* C6: for sorted input the bucket ranges are ordered and disjoint
\* (lower_bound <= upper_bound in a bucket, upper_bound < the next bucket's
\* lower_bound), and every occurrence of a value is accounted to the one
\* bucket whose range holds it: a bucket's own item count is the number of
\* ingested values in its range.
C6_DisjointRanges ==
    /\ \A i \in 1..Len(buckets) :
           /\ LexLeq(buckets[i].lower_bound, buckets[i].upper_bound)
           /\ Own(buckets, i) = Cardinality(InRange(history, buckets[i]))
    /\ \A i \in 1..(Len(buckets) - 1) :
           LexLess(buckets[i].upper_bound, buckets[i + 1].lower_bound)
    /\ \A v \in Values(history) :
           Cardinality({i \in 1..Len(buckets) :
                           /\ LexLeq(buckets[i].lower_bound, v)
                           /\ LexLeq(v, buckets[i].upper_bound)}) = 1

C6_Witness ==
    /\ Len(buckets) >= 3
    /\ merges >= 2
    /\ \E i \in 1..Len(buckets) :
           /\ buckets[i].lower_bound # buckets[i].upper_bound
           /\ Own(buckets, i) > Cardinality(DistinctIn(history, buckets[i]))

\* C7: the reference scenario of test_histogram.
Scenario == <<0, 1, 2, 3, 3, 3, 3, 4, 4, 4, 4, 5>>

ScenarioPrefix(n) == [i \in 1..n |-> encode_value(Scenario[i])]

Shape(len, limit, n) ==
    Len(buckets) = len /\ per_bucket_limit = limit /\ ndv = n

C7_Scenario ==
    buckets_num = 3 =>
        /\ history = <<>> => Shape(0, 1, 0)
        /\ history = ScenarioPrefix(3) => Shape(3, 1, 3)
        /\ history = ScenarioPrefix(4) =>
               /\ Shape(2, 2, 4)
               /\ buckets[1].lower_bound = encode_value(0)
               /\ buckets[1].upper_bound = encode_value(1)
               /\ buckets[2].lower_bound = encode_value(2)
               /\ buckets[2].upper_bound = encode_value(3)
        /\ \A n \in 5..7 : history = ScenarioPrefix(n) => Shape(2, 2, 4)
        /\ history = ScenarioPrefix(11) => Shape(3, 2, 5)
        /\ history = ScenarioPrefix(12) => Shape(3, 4, 6)

C7_Witness ==
    /\ buckets_num = 3
    /\ history = ScenarioPrefix(12)

\* C8: with buckets_num >= 1 no iterate call fails on any byte string, empty
\* ones included: the unwrap of the last bucket is never reached with an
\* empty bucket sequence, and the bucket sequence is non-empty after the
\* first call and forever after.
C8_NeverFails ==
    buckets_num >= 1 =>
        /\ ~failed
        /\ call.path # "panic"
        /\ history # <<>> => buckets # <<>>
        /\ call.path = "insert" => call.mid.buckets # <<>>

C8_Witness ==
    /\ buckets_num >= 1
    /\ call.path = "insert"
    /\ call.data = <<>>
    /\ \E i \in 1..Len(history) : history[i] # <<>>
    /\ ~failed

\* C9 as stated: for sorted input, every bucket's own item count minus
\* (repeats - 1) is at most per_bucket_limit.
C9_LimitByBoundaryRepeats ==
    buckets_num >= 1 =>
        \A i \in 1..Len(buckets) :
            Own(buckets, i) - (buckets[i].repeats - 1) <= per_bucket_limit

\* C9 amended: for sorted input, every bucket holds at most per_bucket_limit
\* distinct values; its own item count exceeds per_bucket_limit only through
\* duplicates of values it holds (of any of them, not only of upper_bound).
C9_LimitByDistinct ==
    buckets_num >= 1 =>
        \A i \in 1..Len(buckets) :
            Cardinality(DistinctIn(history, buckets[i])) <= per_bucket_limit

C9_Witness ==
    /\ buckets_num >= 1
    /\ merges >= 1
    /\ \E i \in 1..Len(buckets) :
           /\ Own(buckets, i) - (buckets[i].repeats - 1) > per_bucket_limit
           /\ Cardinality(DistinctIn(history, buckets[i])) = per_bucket_limit

\* C10: merge_buckets turns n buckets into ceil(n/2): new bucket j takes
\* count, upper_bound and repeats of old bucket 2j+1 and lower_bound of old
\* bucket 2j (0-based), an unpaired last bucket is kept as it is,
\* per_bucket_limit doubles, ndv, id and buckets_num stay, and so do the last
\* bucket's count and upper_bound.
C10_MergeShape ==
    merges > 0 =>
        LET old == merge.pre.buckets
            new == merge.post.buckets
            n   == Len(old)
        IN  /\ Len(new) = (n + 1) \div 2
            /\ \A j \in 0..n :
                   2 * j + 1 < n =>
                       /\ new[j + 1].count = old[2 * j + 2].count
                       /\ new[j + 1].upper_bound = old[2 * j + 2].upper_bound
                       /\ new[j + 1].repeats = old[2 * j + 2].repeats
                       /\ new[j + 1].lower_bound = old[2 * j + 1].lower_bound
            /\ n % 2 = 1 => new[Len(new)] = old[n]
            /\ merge.post.per_bucket_limit = 2 * merge.pre.per_bucket_limit
            /\ merge.post.ndv = merge.pre.ndv
            /\ merge.post.id = merge.pre.id
            /\ merge.post.buckets_num = merge.pre.buckets_num
            /\ n > 0 => /\ Last(new).count = Last(old).count
                        /\ Last(new).upper_bound = Last(old).upper_bound

C10_Witness ==
    /\ merges > 0
    /\ Len(merge.pre.buckets) = 3
    /\ Len(merge.post.buckets) = 2
    /\ merge.pre.buckets[2].repeats # merge.pre.buckets[1].repeats

\* the fullness rule, stated on a bucket sequence and a limit: an empty
\* sequence counts as full, otherwise the last own item count decides
LastFull(bs, limit) == bs = <<>> \/ Own(bs, Len(bs)) >= limit

\* C11: an iterate call runs merge_buckets if and only if its value differs
\* from the last bucket's upper_bound, the number of buckets is >= buckets_num
\* and the last bucket is full; it runs it at most once, before the value is
\* placed (the value goes into the merged sequence), and a merge is the only
\* step that reduces the number of buckets, from n to ceil(n/2).
C11_MergeTrigger ==
    [][history' # history =>
        LET data == Last(history')
            n    == Len(buckets)
            due  == /\ ~(buckets # <<>> /\ Last(buckets).upper_bound = data)
                    /\ n >= buckets_num
                    /\ LastFull(buckets, per_bucket_limit)
        IN  /\ call'.merged <=> due
            /\ merges' = merges + (IF due THEN 1 ELSE 0)
            /\ Len(buckets') < n => call'.merged
            /\ call'.merged =>
                   /\ merge'.pre.buckets = buckets
                   /\ merge'.post = call'.mid
                   /\ Len(call'.mid.buckets) = (n + 1) \div 2
                   /\ Len(buckets') \in {Len(call'.mid.buckets),
                                         Len(call'.mid.buckets) + 1}
                   /\ \A i \in 1..(Len(call'.mid.buckets) - 1) :
                          buckets'[i] = call'.mid.buckets[i]
                   /\ Last(buckets').upper_bound = data
            /\ ~call'.merged => call'.mid.buckets = buckets
    ]_vars

C11_Witness ==
    /\ call.merged
    /\ merges >= 2
    /\ Len(call.pre.buckets) >= 3
    /\ Len(buckets) < Len(call.pre.buckets)

\* C12: a value that is not a repeat is placed after the compaction check: if
\* the last bucket's own item count is below per_bucket_limit the value
\* extends that bucket (count + 1, upper_bound = value, repeats = 1,
\* lower_bound and the number of buckets unchanged); otherwise exactly one
\* bucket is appended with count = 1 + the previous last count (1 if none),
\* lower_bound = upper_bound = value, repeats = 1.  A bucket whose own item
\* count is >= per_bucket_limit never receives a distinct value.
C12_Placement ==
    call.path \in {"insert", "push"} =>
        LET mid == call.mid.buckets
            lim == call.mid.per_bucket_limit
            n   == Len(mid)
        IN  /\ per_bucket_limit = lim
            /\ IF mid # <<>> /\ Own(mid, n) < lim
               THEN /\ call.path = "insert"
                    /\ Len(buckets) = n
                    /\ \A i \in 1..(n - 1) : buckets[i] = mid[i]
                    /\ buckets[n].count = mid[n].count + 1
                    /\ buckets[n].upper_bound = call.data
                    /\ buckets[n].repeats = 1
                    /\ buckets[n].lower_bound = mid[n].lower_bound
               ELSE /\ call.path = "push"
                    /\ Len(buckets) = n + 1
                    /\ \A i \in 1..n : buckets[i] = mid[i]
                    /\ buckets[n + 1].count =
                           1 + (IF n = 0 THEN 0 ELSE mid[n].count)
                    /\ buckets[n + 1].lower_bound = call.data
                    /\ buckets[n + 1].upper_bound = call.data
                    /\ buckets[n + 1].repeats = 1

C12_Witness ==
    /\ call.path = "insert"
    /\ call.merged
    /\ Last(call.mid.buckets).repeats > 1
    /\ Last(buckets).repeats = 1
    /\ Len(buckets) >= 2

\* the number of times value v was ingested
Occurrences(s, v) == Cardinality({k \in 1..Len(s) : s[k] = v})

\* C13: for sorted input, the repeats of every bucket, merged ones included,
\* is the number of times the bucket's upper_bound was ingested; so
\* 1 <= repeats <= the bucket's own item count.
C13_RepeatsOfUpperBound ==
    \A i \in 1..Len(buckets) :
        /\ buckets[i].repeats = Occurrences(history, buckets[i].upper_bound)
        /\ 1 <= buckets[i].repeats
        /\ buckets[i].repeats <= Own(buckets, i)

C13_Witness ==
    /\ merges >= 1
    /\ Len(buckets) >= 2
    /\ buckets[1].lower_bound # buckets[1].upper_bound
    /\ buckets[1].repeats >= 2
    /\ Occurrences(history, buckets[1].lower_bound) >= 2
    /\ Occurrences(history, buckets[1].lower_bound) # buckets[1].repeats

\* C14: after at least one iterate call, sorted or not, the last bucket's
\* upper_bound is the value ingested last and the first bucket's lower_bound
\* is the value ingested first; merge_buckets changes neither.
C14_EndBounds ==
    /\ history # <<>> =>
           /\ buckets # <<>>
           /\ Last(buckets).upper_bound = Last(history)
           /\ buckets[1].lower_bound = history[1]
    /\ (merges > 0 /\ merge.pre.buckets # <<>>) =>
           /\ merge.post.buckets # <<>>
           /\ Last(merge.post.buckets).upper_bound =
                  Last(merge.pre.buckets).upper_bound
           /\ merge.post.buckets[1].lower_bound =
                  merge.pre.buckets[1].lower_bound

C14_Witness ==
    /\ merges >= 2
    /\ call.path = "insert"
    /\ ~IsSorted(history)
    /\ Last(history) # history[1]
    /\ Len(buckets) >= 2
    /\ Len(merge.pre.buckets) >= 2

\* C15: outside merges the bucket sequence only grows at its end: an iterate
\* call that runs no merge removes no bucket, leaves every bucket but the
\* last as it was and changes no lower_bound of an existing bucket; no
\* iterate call changes id or buckets_num.
C15_AppendOnly ==
    [][history' # history =>
        /\ id' = id
        /\ buckets_num' = buckets_num
        /\ ~call'.merged =>
               /\ Len(buckets') >= Len(buckets)
               /\ Len(buckets') <= Len(buckets) + 1
               /\ \A i \in 1..(Len(buckets) - 1) : buckets'[i] = buckets[i]
               /\ buckets # <<>> =>
                      buckets'[Len(buckets)].lower_bound =
                          Last(buckets).lower_bound
               /\ Len(buckets') > Len(buckets) =>
                      \A i \in 1..Len(buckets) : buckets'[i] = buckets[i]
    ]_vars

C15_Witness ==
    /\ ~call.merged
    /\ call.path = "insert"
    /\ merges >= 1
    /\ Len(buckets) >= 2
    /\ Last(buckets).lower_bound # Last(buckets).upper_bound
    /\ Last(buckets).lower_bound = Last(call.pre.buckets).lower_bound

Max(a, b) == IF a >= b THEN a ELSE b

\* C16: for buckets_num >= 1 and any input, when an iterate call returns every
\* bucket except the last has an own item count >= per_bucket_limit: a merge
\* leaves no under-filled bucket behind a newer one.
C16_EquiDepthLowerBound ==
    buckets_num >= 1 =>
        \A i \in 1..(Len(buckets) - 1) :
            Own(buckets, i) >= per_bucket_limit

C16_Witness ==
    /\ buckets_num >= 1
    /\ merges >= 2
    /\ Len(buckets) >= 2
    /\ ~IsSorted(history)
    /\ Own(buckets, Len(buckets)) < per_bucket_limit
    /\ Own(buckets, 1) = per_bucket_limit

\* C17: when an iterate call returns, the last bucket's own item count minus
\* (repeats - 1) is at most per_bucket_limit: the last bucket is over its
\* limit only by duplicates of its upper_bound.
C17_LastBucketBound ==
    buckets # <<>> =>
        Own(buckets, Len(buckets)) - (Last(buckets).repeats - 1)
            <= per_bucket_limit

C17_Witness ==
    /\ merges >= 1
    /\ Len(buckets) >= 2
    /\ Own(buckets, Len(buckets)) > per_bucket_limit
    /\ Own(buckets, Len(buckets)) - (Last(buckets).repeats - 1)
           = per_bucket_limit
    /\ per_bucket_limit >= 2

\* C18: for buckets_num >= 1 and any input the number of buckets is at most
\* max(buckets_num, 2) in every state, after the compaction check as well as
\* when the call returns.
C18_AbsoluteCap ==
    buckets_num >= 1 =>
        /\ Len(buckets) <= Max(buckets_num, 2)
        /\ Len(call.mid.buckets) <= Max(buckets_num, 2)

C18_Witness ==
    /\ buckets_num = 1
    /\ Len(buckets) = 2
    /\ Len(call.mid.buckets) = 2
    /\ merges >= 1

====
